---- MODULE Spec2Model ----
(***************************************************************************)
(* Model of the batched request scheduler of crypto-mcp-metrics            *)
(* (src/core/claude/batch_processor.py): BatchProcessor.submit, the        *)
(* _process_batches task, _collect_batch, the combined downstream call,    *)
(* _distribute_results and the per-request fallback with retries.          *)
(*                                                                         *)
(* Granularity: one action is the code a coroutine runs between two        *)
(* suspension points of the asyncio event loop.  asyncio.wait_for yields   *)
(* on every call on some interpreter versions and only on an empty queue   *)
(* on others, so each queue.get() of the collector is its own step.        *)
(* Time is counted in ticks; BatchTimeout is the batch timeout in ticks.   *)
(*                                                                         *)
(* The module also models RateLimiter and APIHandler.request               *)
(* (src/core/api_handler.py; SpecLimiter, SpecGateway) and                 *)
(* PerformanceMonitor (src/utils/monitoring.py; SpecMonitor),              *)
(* PerformanceAnalyzer._percentile (SpecAnalyzer),                         *)
(* CryptoMetricsCollector.collect_all_metrics (src/main.py; SpecCollector),*)
(* MarketMetrics.validate (src/metrics/market_metrics.py; SpecValidate)    *)
(* and the rate limiters of the collectors of one CryptoMetricsCollector   *)
(* (src/metrics/base.py; SpecHandlers).                                    *)
(***************************************************************************)
EXTENDS Integers, Sequences, FiniteSets, TLC

\* ---------------------------------------------------------------- bounds
MaxReq == 3          \* submit calls made in one behaviour
MaxLoops == 2        \* _process_batches tasks alive at the same time
MaxCancel == 1       \* callers that abandon their wait
BatchSize == 2       \* config['BATCH_SIZE']
BatchTimeout == 2    \* config['BATCH_TIMEOUT'], in ticks
MaxRetries == 1      \* config['MAX_RETRIES']
Priorities == {0, 1}
RateLimitWindow == 3  \* Config.RATE_LIMIT_WINDOW, in ticks
MaxTime == 7          \* the clock stops here
MaxCalls == 2         \* APIHandler.request calls made in one behaviour
MaxTries == 3         \* max_tries of backoff.on_exception
MaxPoints == 4        \* metric points recorded in one behaviour
MaxDepth == 2         \* measure scopes open at once
MaxLen == 3           \* length of the lists passed to _percentile

VARIABLES
    prio,        \* prio[r]: priority of request r, in order of the submit calls
    accepted,    \* accepted[r]: submit(r) reached "await future" (put did not raise)
    future,      \* future[r]: state of request r's asyncio.Future
    queue,       \* the heap array of asyncio.PriorityQueue (request ids)
    processing,  \* BatchProcessor.processing
    loops,       \* loops[l]: one _process_batches task per slot
    sent,        \* history: batch_size of each combined payload passed downstream, in order
    indivCalls,  \* history: indivCalls[r] = individual downstream calls made for r
    doubleSet,   \* history: requests on which a set_* was attempted after the code resolved them
    batch_size   \* BatchProcessor.batch_size, fixed by the constructor

\* RateLimiter (src/core/api_handler.py)
VARIABLES
    now,          \* the wall clock read by datetime.now(), in ticks
    requests,     \* RateLimiter.requests: per service, the recorded timestamps
    limitResult   \* history: the service and the outcome of the last check_limit

limiterVars == <<now, requests, limitResult>>

\* APIHandler (src/core/api_handler.py)
VARIABLES
    session,      \* APIHandler.session is set
    call,         \* the APIHandler.request call in progress, or the last one made
    callsMade     \* history: the number of request calls started

gatewayVars == <<session, call, callsMade>>

\* PerformanceMonitor (src/utils/monitoring.py)
VARIABLES
    metrics,      \* PerformanceMonitor.metrics: per name, the recorded values
    scopes,       \* the open "with monitor.measure(name)" blocks, innermost last
    exited,       \* history: the last measure block left, and how
    summary       \* history: the name and the result of the last get_summary

monitorVars == <<metrics, scopes, exited, summary>>

\* PerformanceAnalyzer (src/utils/monitoring.py)
VARIABLES
    percentile    \* history: the input and the result of the last _percentile call

\* CryptoMetricsCollector.collect_all_metrics (src/main.py)
VARIABLES
    tasks,        \* the four collector tasks of the collect_all_metrics call
    collected     \* the collect_all_metrics call: not made, waiting, returned or raised

\* MarketMetrics.validate (src/metrics/market_metrics.py)
VARIABLES
    validation    \* history: the data and the outcome of the last validate call

\* The collectors of one CryptoMetricsCollector (src/main.py, src/metrics/base.py)
VARIABLES
    handlers      \* per collector, the requests of the RateLimiter of its own APIHandler

appVars == <<percentile, tasks, collected, validation, handlers>>

otherVars == <<limiterVars, gatewayVars, monitorVars, appVars>>

batchVars == <<prio, accepted, future, queue, processing, loops, sent, indivCalls,
               doubleSet, batch_size>>

vars == <<batchVars, otherVars>>

\* Config.MAX_REQUESTS_PER_WINDOW, with small ceilings; a service that is
\* not listed has the ceiling 0 of ".get(service, 0)".
Services == {"coingecko", "coinmarketcap", "unlisted"}

MaxRequestsPerWindow == [coingecko |-> 2, coinmarketcap |-> 1]

\* RateLimiter.__init__
LimiterInit ==
    /\ now = 0
    /\ requests = [s \in Services |-> <<>>]
    /\ limitResult = [service |-> "none", outcome |-> "none"]

\* APIHandler.__init__; no request call has been made.
NoCall == [pc |-> "idle", service |-> "none", tries |-> 0, admitted |-> 0,
           net |-> 0, outcomes |-> <<>>, result |-> "none", cause |-> "none"]

GatewayInit ==
    /\ session = FALSE
    /\ call = NoCall
    /\ callsMade = 0

\* The metric names of the model, and the name measure() records under.
Names == {"a", "b"}

Duration(name) == name \o "_duration"

MetricNames == Names \cup {Duration(name) : name \in Names}

\* The dictionary {}.
EmptyDict == [key \in {} |-> 0]

\* PerformanceMonitor.__init__
MonitorInit ==
    /\ metrics = [name \in MetricNames |-> <<>>]
    /\ scopes = <<>>
    /\ exited = [name |-> "none", raised |-> FALSE]
    /\ summary = [name |-> "none", result |-> EmptyDict]

\* No _percentile call has been made.
NoPercentile == [values |-> <<>>, p |-> 0, result |-> [raised |-> "none", value |-> 0]]

\* Two of the collectors CryptoMetricsCollector.__init__ builds; each calls
\* BaseMetricCollector.__init__, which builds an APIHandler of its own.
CollectorNames == {"market_metrics", "volume_metrics"}

\* self.service of each collector
ServiceOf == [collector \in CollectorNames |-> "coingecko"]

\* The tasks in the order they are passed to asyncio.gather.
TaskNames == <<"market_task", "volume_task", "social_task", "dev_task">>

\* The keys in the order of the list zipped with the results.
Categories == <<"market", "volume", "social", "development">>

NoTask == [state |-> "none", raised |-> FALSE, value |-> "none"]

AppInit ==
    /\ percentile = NoPercentile
    /\ tasks = [i \in 1..Len(TaskNames) |-> NoTask]
    /\ collected = [state |-> "none", metrics |-> EmptyDict]
    /\ validation = [called |-> FALSE, data |-> EmptyDict, raised |-> "none"]
    /\ handlers = [collector \in CollectorNames |-> [service \in Services |-> <<>>]]

OtherInit == LimiterInit /\ GatewayInit /\ MonitorInit /\ AppInit

Min(a, b) == IF a < b THEN a ELSE b

\* ------------------------------------------------------- asyncio.Future
Pending == [st |-> "PENDING", kind |-> "none", of |-> 0]

BatchVal(d) == [kind |-> "batch", of |-> d]      \* an entry of a batch response
SingleVal(d) == [kind |-> "single", of |-> d]    \* the result of an individual call
ErrorVal(d) == [kind |-> "error", of |-> d]      \* the exception of an individual call

FutureDoneNever(f) == FALSE

FutureDone(f) == f.st # "PENDING"

\* Future.set_result / Future.set_exception: InvalidStateError unless pending.
SetFuture(f, v) ==
    IF f.st = "PENDING"
    THEN [fut |-> [st |-> "FINISHED", kind |-> v.kind, of |-> v.of], err |-> FALSE]
    ELSE [fut |-> f, err |-> TRUE]

\* ------------------------------------------------ asyncio.PriorityQueue
\* Items are (priority, request) tuples on a heapq heap.  Two tuples of
\* equal priority fall through to comparing the BatchRequest dataclasses,
\* which define no ordering: the comparison raises TypeError.
Swap(h, i, j) == [h EXCEPT ![i] = h[j], ![j] = h[i]]

RECURSIVE Siftdown(_, _, _, _)
Siftdown(h, pr, startpos, pos) ==
    IF pos > startpos
    THEN LET parentpos == pos \div 2 IN
         IF pr[h[pos]] = pr[h[parentpos]]
         THEN [heap |-> h, err |-> TRUE]
         ELSE IF pr[h[pos]] < pr[h[parentpos]]
              THEN Siftdown(Swap(h, pos, parentpos), pr, startpos, parentpos)
              ELSE [heap |-> h, err |-> FALSE]
    ELSE [heap |-> h, err |-> FALSE]

RECURSIVE SiftupFrom(_, _, _, _)
SiftupFrom(h, pr, startpos, pos) ==
    IF pos <= Len(h) \div 2
    THEN LET left == 2 * pos IN
         IF left + 1 <= Len(h)
         THEN IF pr[h[left]] = pr[h[left + 1]]
              THEN [heap |-> h, err |-> TRUE]
              ELSE LET childpos == IF pr[h[left]] < pr[h[left + 1]]
                                   THEN left ELSE left + 1
                   IN  SiftupFrom(Swap(h, childpos, pos), pr, startpos, childpos)
         ELSE SiftupFrom(Swap(h, left, pos), pr, startpos, left)
    ELSE Siftdown(h, pr, startpos, pos)

\* heapq.heappush: append, then sift; the item stays in the list when the
\* sift raises.
HeapPush(h, pr, r) == Siftdown(Append(h, r), pr, 1, Len(h) + 1)

HeapPeek(h, pr) == [item |-> h[1], heap |-> h, err |-> FALSE]

\* heapq.heappop: the last item replaces the root and is sifted; when the
\* sift raises, the old root has already left the heap and is dropped.
HeapPop(h, pr) ==
    LET n == Len(h)
        lastelt == h[n]
        rest == SubSeq(h, 1, n - 1)
    IN  IF n = 1
        THEN [item |-> lastelt, heap |-> <<>>, err |-> FALSE]
        ELSE LET s == SiftupFrom([rest EXCEPT ![1] = lastelt], pr, 1, 1)
             IN  [item |-> h[1], heap |-> s.heap, err |-> s.err]

\* --------------------------------------------------------- loop records
Idle == [pc |-> "idle", batch |-> <<>>, elapsed |-> 0, waited |-> 0,
         idx |-> 0, attempt |-> 0]

Created == [Idle EXCEPT !.pc = "created"]

Collecting == [Idle EXCEPT !.pc = "collect"]

BatchCall(b) == [Idle EXCEPT !.pc = "batch_call", !.batch = b]

FallbackCall(b, i, a) ==
    [Idle EXCEPT !.pc = "fallback_call", !.batch = b, !.idx = i, !.attempt = a]

LoopIds == DOMAIN loops

Active(l) == loops[l].pc # "idle"

FreeSlot == CHOOSE l \in LoopIds :
                /\ ~Active(l)
                /\ \A k \in LoopIds : ~Active(k) => l <= k

Init ==
    /\ prio = <<>>
    /\ accepted = <<>>
    /\ future = <<>>
    /\ queue = <<>>
    /\ processing = FALSE
    /\ loops = [l \in 1..MaxLoops |-> Idle]
    /\ sent = <<>>
    /\ indivCalls = <<>>
    /\ doubleSet = {}
    /\ batch_size = BatchSize
    /\ OtherInit

\* ---------------------------------------------------------------- submit
\* submit(): build the request, queue.put, create the loop task when the
\* flag is clear, then wait on the future.
SubmitBody(p) ==
    LET r == Len(prio) + 1
        pr == Append(prio, p)
        push == HeapPush(queue, pr, r)
        spawn == ~push.err /\ ~processing
    IN  /\ spawn => \E l \in LoopIds : ~Active(l)
        /\ prio' = pr
        /\ future' = Append(future, Pending)
        /\ indivCalls' = Append(indivCalls, 0)
        /\ queue' = push.heap
        /\ accepted' = Append(accepted, ~push.err)
        /\ loops' = IF spawn THEN [loops EXCEPT ![FreeSlot] = Created] ELSE loops
        /\ UNCHANGED <<processing, sent, doubleSet, batch_size, otherVars>>

Submit(p) ==
    /\ Len(prio) < MaxReq
    /\ SubmitBody(p)


\* ------------------------------------------------------ _process_batches
\* "while not self.queue.empty()": leave the loop (the finally clause clears
\* the flag) or begin a new _collect_batch.
WhileCheck(q) == IF q = <<>> THEN Idle ELSE Collecting

FlagAfterCheck(q, flag) == IF q = <<>> THEN FALSE ELSE flag

\* The task's first run: set the flag, then the first while test.
LoopStart(l) ==
    /\ loops[l].pc = "created"
    /\ loops' = [loops EXCEPT ![l] = WhileCheck(queue)]
    /\ processing' = FlagAfterCheck(queue, TRUE)
    /\ UNCHANGED <<prio, accepted, future, queue, sent, indivCalls, doubleSet, batch_size, otherVars>>

\* -------------------------------------------------------- _collect_batch
CollectMoreOrEqual(batch) == Len(batch) <= batch_size

CollectMore(batch) == Len(batch) < batch_size

TimedOut(elapsed) == elapsed >= BatchTimeout

\* The timeout handed to asyncio.wait_for for one queue.get().
WaitBudget(elapsed) == BatchTimeout

CombineContexts(contexts) ==
    [type |-> "batch", requests |-> contexts, batch_size |-> Len(contexts)]

\* queue.get() returns an item (or raises out of heappop); the item is
\* appended, then the elapsed-time test and the while test decide whether
\* collection goes on.  An exception leaves _process_batches through its
\* finally clause.
CollectGet(l) ==
    LET pop == HeapPop(queue, prio)
        b == Append(loops[l].batch, pop.item)
    IN  /\ loops[l].pc = "collect"
        /\ queue # <<>>
        /\ queue' = pop.heap
        /\ IF pop.err
           THEN /\ loops' = [loops EXCEPT ![l] = Idle]
                /\ processing' = FALSE
                /\ sent' = sent
           ELSE IF TimedOut(loops[l].elapsed) \/ ~CollectMore(b)
                THEN /\ loops' = [loops EXCEPT ![l] = BatchCall(b)]
                     /\ sent' = Append(sent, CombineContexts(b).batch_size)
                     /\ processing' = processing
                ELSE /\ loops' = [loops EXCEPT ![l].batch = b, ![l].waited = 0]
                     /\ UNCHANGED <<sent, processing>>
        /\ UNCHANGED <<prio, accepted, future, indivCalls, doubleSet, batch_size, otherVars>>

\* wait_for raises TimeoutError: break.  An empty batch goes back to the
\* while test, a non-empty one is sent downstream.
CollectTimeout(l) ==
    /\ loops[l].pc = "collect"
    /\ queue = <<>>
    /\ loops[l].waited >= WaitBudget(loops[l].elapsed)
    /\ IF loops[l].batch = <<>>
       THEN /\ loops' = [loops EXCEPT ![l] = WhileCheck(queue)]
            /\ processing' = FlagAfterCheck(queue, processing)
            /\ sent' = sent
       ELSE /\ loops' = [loops EXCEPT ![l] = BatchCall(loops[l].batch)]
            /\ sent' = Append(sent, CombineContexts(loops[l].batch).batch_size)
            /\ processing' = processing
    /\ UNCHANGED <<prio, accepted, future, queue, indivCalls, doubleSet, batch_size, otherVars>>

\* One tick of the clock passes while every collector waits on the empty
\* queue and none of the waits has run out.
Tick ==
    /\ \E l \in LoopIds : loops[l].pc = "collect"
    /\ queue = <<>>
    /\ \A l \in LoopIds : loops[l].pc = "collect" =>
                            loops[l].waited < WaitBudget(loops[l].elapsed)
    /\ loops' = [l \in LoopIds |->
                   IF loops[l].pc = "collect"
                   THEN [loops[l] EXCEPT !.elapsed = @ + 1, !.waited = @ + 1]
                   ELSE loops[l]]
    /\ UNCHANGED <<prio, accepted, future, queue, processing, sent, indivCalls,
                   doubleSet, batch_size, otherVars>>


\* ------------------------------------------------- the downstream client
\* What client.process_request may answer to a combined payload: one entry
\* per request in order, the same entries in reverse order, one entry too
\* few, one too many, or a response without 'results'.
Reverse(sq) == [i \in 1..Len(sq) |-> sq[Len(sq) + 1 - i]]

Echo(payload) == [i \in 1..Len(payload.requests) |-> BatchVal(payload.requests[i])]

Responses(payload) ==
    { [has |-> TRUE, results |-> Echo(payload)],
      [has |-> TRUE, results |-> Reverse(Echo(payload))],
      [has |-> TRUE, results |-> SubSeq(Echo(payload), 1, Len(payload.requests) - 1)],
      [has |-> TRUE, results |-> Append(Echo(payload), BatchVal(0))],
      [has |-> FALSE, results |-> <<>>] }

\* --------------------------------------- _split_response, _distribute_results
SplitResponseOkAtMost(response, size) ==
    response.has /\ Len(response.results) <= size

SplitResponseOk(response, size) ==
    response.has /\ Len(response.results) = size

\* One set_result / set_exception on request r, with the record of an
\* attempt made on a future the code had already resolved.
Resolve(futs, dbl, r, v) ==
    LET s == SetFuture(futs[r], v)
    IN  [futs |-> [futs EXCEPT ![r] = s.fut],
         dbl |-> IF s.err /\ futs[r].st = "FINISHED" THEN dbl \cup {r} ELSE dbl,
         err |-> s.err]

ZipResultReversed(results, i) == results[Len(results) + 1 - i]

\* zip(batch, results): the result paired with the i-th request.
ZipResult(results, i) == results[i]

RECURSIVE DistributeFrom(_, _, _, _, _)
DistributeFrom(i, batch, results, futs, dbl) ==
    IF i > Min(Len(batch), Len(results))
    THEN [futs |-> futs, dbl |-> dbl, err |-> FALSE]
    ELSE IF FutureDone(futs[batch[i]])
         THEN DistributeFrom(i + 1, batch, results, futs, dbl)
         ELSE LET x == Resolve(futs, dbl, batch[i], ZipResult(results, i))
              IN  IF x.err
                  THEN x
                  ELSE DistributeFrom(i + 1, batch, results, x.futs, x.dbl)

DistributeResults(batch, results, futs, dbl) ==
    DistributeFrom(1, batch, results, futs, dbl)

\* ---------------------------------------------------- _handle_batch_error
\* The for loop's next request whose future is not done, from position i
\* on; 0 when the loop is over.
RECURSIVE NextPending(_, _, _)
NextPending(batch, futs, i) ==
    IF i > Len(batch) THEN 0
    ELSE IF FutureDone(futs[batch[i]]) THEN NextPending(batch, futs, i + 1)
    ELSE i

\* The loop record and the call counts once the for loop moves on to
\* position i: the next individual call is in flight, or the batch is over
\* and _process_batches is back at its while test.
FallbackFrom(batch, futs, i, calls, q) ==
    LET j == NextPending(batch, futs, i)
    IN  IF j = 0
        THEN [loop |-> WhileCheck(q), calls |-> calls, over |-> TRUE]
        ELSE [loop |-> FallbackCall(batch, j, 0),
              calls |-> [calls EXCEPT ![batch[j]] = @ + 1], over |-> FALSE]

\* The batch call returned a response.
BatchReturns(l, resp) ==
    LET b == loops[l].batch
        ok == SplitResponseOk(resp, Len(b))
        d == DistributeResults(b, resp.results, future, doubleSet)
        fb == FallbackFrom(b, IF ok THEN d.futs ELSE future, 1, indivCalls, queue)
    IN  /\ loops[l].pc = "batch_call"
        /\ resp \in Responses(CombineContexts(b))
        /\ IF ok /\ ~d.err
           THEN /\ future' = d.futs
                /\ doubleSet' = d.dbl
                /\ loops' = [loops EXCEPT ![l] = WhileCheck(queue)]
                /\ processing' = FlagAfterCheck(queue, processing)
                /\ indivCalls' = indivCalls
           ELSE /\ future' = IF ok THEN d.futs ELSE future
                /\ doubleSet' = IF ok THEN d.dbl ELSE doubleSet
                /\ loops' = [loops EXCEPT ![l] = fb.loop]
                /\ processing' = IF fb.over THEN FlagAfterCheck(queue, processing)
                                 ELSE processing
                /\ indivCalls' = fb.calls
        /\ UNCHANGED <<prio, accepted, queue, sent, batch_size, otherVars>>

\* The batch call raised: _process_batch re-raises, _handle_batch_error runs.
BatchRaises(l) ==
    LET b == loops[l].batch
        fb == FallbackFrom(b, future, 1, indivCalls, queue)
    IN  /\ loops[l].pc = "batch_call"
        /\ loops' = [loops EXCEPT ![l] = fb.loop]
        /\ processing' = IF fb.over THEN FlagAfterCheck(queue, processing)
                         ELSE processing
        /\ indivCalls' = fb.calls
        /\ UNCHANGED <<prio, accepted, future, queue, sent, doubleSet, batch_size, otherVars>>

\* ---------------------------------------------------- _process_with_retry
RetryAllowedOnceMore(attempt) == attempt <= MaxRetries

RetryAllowed(attempt) == attempt < MaxRetries

\* "except Exception as e: request.future.set_exception(e)": the request is
\* failed with the exception e; err tells whether set_exception itself
\* raised out of _handle_batch_error.
FailRequestAbort(futs, dbl, r, e) == [futs |-> futs, dbl |-> dbl, err |-> TRUE]

FailRequest(futs, dbl, r, e) == Resolve(futs, dbl, r, e)

\* The end of one request's turn in the for loop with outcome x: the loop
\* goes on with the next request, or the exception leaves _process_batches
\* through its finally clause.
EndTurn(l, x) ==
    LET fb == FallbackFrom(loops[l].batch, x.futs, loops[l].idx + 1, indivCalls, queue)
    IN  /\ future' = x.futs
        /\ doubleSet' = x.dbl
        /\ IF x.err
           THEN /\ loops' = [loops EXCEPT ![l] = Idle]
                /\ processing' = FALSE
                /\ indivCalls' = indivCalls
           ELSE /\ loops' = [loops EXCEPT ![l] = fb.loop]
                /\ processing' = IF fb.over THEN FlagAfterCheck(queue, processing)
                                 ELSE processing
                /\ indivCalls' = fb.calls

\* The individual call returned: set_result, and set_exception with the
\* InvalidStateError when set_result raised.
IndivReturns(l) ==
    LET r == loops[l].batch[loops[l].idx]
        x == Resolve(future, doubleSet, r, SingleVal(r))
    IN  /\ loops[l].pc = "fallback_call"
        /\ EndTurn(l, IF x.err THEN FailRequest(x.futs, x.dbl, r, ErrorVal(r)) ELSE x)
        /\ UNCHANGED <<prio, accepted, queue, sent, batch_size, otherVars>>

\* The individual call raised: sleep and call again while attempts are
\* left, else the exception reaches _handle_batch_error.
IndivRaises(l) ==
    LET r == loops[l].batch[loops[l].idx]
    IN  /\ loops[l].pc = "fallback_call"
        /\ IF RetryAllowed(loops[l].attempt)
           THEN /\ loops' = [loops EXCEPT ![l].attempt = @ + 1]
                /\ indivCalls' = [indivCalls EXCEPT ![r] = @ + 1]
                /\ UNCHANGED <<future, doubleSet, processing>>
           ELSE EndTurn(l, FailRequest(future, doubleSet, r, ErrorVal(r)))
        /\ UNCHANGED <<prio, accepted, queue, sent, batch_size, otherVars>>

\* ------------------------------------------------------------ the caller
\* A caller abandons its wait: the task blocked in "await future" is
\* cancelled and the future with it.
Cancel(r) ==
    /\ r <= Len(future)
    /\ accepted[r]
    /\ future[r].st = "PENDING"
    /\ Cardinality({x \in 1..Len(future) : future[x].st = "CANCELLED"}) < MaxCancel
    /\ future' = [future EXCEPT ![r].st = "CANCELLED"]
    /\ UNCHANGED <<prio, accepted, queue, processing, loops, sent, indivCalls,
                   doubleSet, batch_size, otherVars>>

\* ------------------------------------------------------- specifications
LoopStep(l) ==
    \/ LoopStart(l)
    \/ CollectGet(l)
    \/ CollectTimeout(l)
    \/ BatchRaises(l)
    \/ \E resp \in Responses(CombineContexts(loops[l].batch)) : BatchReturns(l, resp)
    \/ IndivReturns(l)
    \/ IndivRaises(l)

Next ==
    \/ \E p \in Priorities : Submit(p)
    \/ \E l \in 1..MaxLoops : LoopStep(l)
    \/ Tick

Spec == Init /\ [][Next]_vars

NextCancel ==
    \/ Next
    \/ \E r \in 1..MaxReq : Cancel(r)

SpecCancel == Init /\ [][NextCancel]_vars

\* The batch-bound scenario: a processor built with BATCH_SIZE = 3 and five
\* submit calls gathered into one burst, so that all five run before the
\* event loop gives any other task a turn.
InitBurst ==
    /\ prio = <<>>
    /\ accepted = <<>>
    /\ future = <<>>
    /\ queue = <<>>
    /\ processing = FALSE
    /\ loops = [l \in 1..5 |-> Idle]
    /\ sent = <<>>
    /\ indivCalls = <<>>
    /\ doubleSet = {}
    /\ batch_size = 3
    /\ OtherInit

BurstSubmit(p) ==
    /\ Len(prio) < 5
    /\ SubmitBody(p)

BurstLoopStep(l) ==
    /\ Len(prio) = 5
    /\ LoopStep(l)

BurstTick ==
    /\ Len(prio) = 5
    /\ Tick

NextBurst ==
    \/ \E p \in Priorities : BurstSubmit(p)
    \/ \E l \in 1..5 : BurstLoopStep(l)
    \/ BurstTick

SpecBurst == InitBurst /\ [][NextBurst]_vars


\* The priority scenario: seven submit calls with the priorities of
\* TiesPriority, gathered into one burst so that all seven run before the
\* event loop gives any other task a turn; every accepted submit of the
\* burst creates a _process_batches task.  The scenario follows the tasks
\* through their queue.get() calls, before the clock advances and before
\* the downstream client answers.
TiesPriority == <<0, 0, 2, 1, 1, 2, 3>>

InitTies ==
    /\ prio = <<>>
    /\ accepted = <<>>
    /\ future = <<>>
    /\ queue = <<>>
    /\ processing = FALSE
    /\ loops = [l \in 1..5 |-> Idle]
    /\ sent = <<>>
    /\ indivCalls = <<>>
    /\ doubleSet = {}
    /\ batch_size = BatchSize
    /\ OtherInit

TiesSubmit ==
    /\ Len(prio) < Len(TiesPriority)
    /\ SubmitBody(TiesPriority[Len(prio) + 1])

TiesLoopStart(l) ==
    /\ Len(prio) = Len(TiesPriority)
    /\ LoopStart(l)

TiesCollectGet(l) ==
    /\ Len(prio) = Len(TiesPriority)
    /\ CollectGet(l)

NextTies ==
    \/ TiesSubmit
    \/ \E l \in 1..5 : TiesLoopStart(l)
    \/ \E l \in 1..5 : TiesCollectGet(l)

SpecTies == InitTies /\ [][NextTies]_vars


\* ------------------------------------------------------------ RateLimiter
WindowStart(t) == t - RateLimitWindow

NewerOrEqual(timestamp, window_start) == timestamp >= window_start

\* "if timestamp > window_start": the timestamps _cleanup_old_requests keeps.
Newer(timestamp, window_start) == timestamp > window_start

CleanupOldRequests(reqs, service, t) ==
    [reqs EXCEPT ![service] = SelectSeq(@, LAMBDA ts : Newer(ts, WindowStart(t)))]

\* Config.MAX_REQUESTS_PER_WINDOW.get(service, 0)
MaxRequests(service) ==
    IF service \in DOMAIN MaxRequestsPerWindow
    THEN MaxRequestsPerWindow[service]
    ELSE 0

LimitReachedAbove(current_requests, max_requests) == current_requests > max_requests

\* "if current_requests >= max_requests"
LimitReached(current_requests, max_requests) == current_requests >= max_requests

RejectedRecords(reqs, service, t) == [reqs EXCEPT ![service] = Append(@, t)]

\* The timestamps after "raise APIError": the rejected call records nothing.
Rejected(reqs, service, t) == reqs

\* check_limit(service) with the clock at t in _cleanup_old_requests and at
\* t2 in the append: the timestamps it leaves and its outcome.
CheckLimitResult(reqs, service, t, t2) ==
    LET cleaned == CleanupOldRequests(reqs, service, t)
    IN  IF LimitReached(Len(cleaned[service]), MaxRequests(service))
        THEN [requests |-> Rejected(cleaned, service, t), outcome |-> "APIError", at |-> t]
        ELSE [requests |-> [cleaned EXCEPT ![service] = Append(@, t2)],
              outcome |-> "ok", at |-> t2]

\* One call of check_limit; d is the time that passes between its two
\* readings of the clock.
CheckLimit(service, d) ==
    LET res == CheckLimitResult(requests, service, now, now + d)
    IN  /\ now + d <= MaxTime
        /\ res.outcome = "APIError" => d = 0
        /\ requests' = res.requests
        /\ now' = res.at
        /\ limitResult' = [service |-> service, outcome |-> res.outcome]
        /\ UNCHANGED <<batchVars, gatewayVars, monitorVars, appVars>>

ClockTick ==
    /\ now < MaxTime
    /\ now' = now + 1
    /\ UNCHANGED <<requests, limitResult, batchVars, gatewayVars, monitorVars, appVars>>

NextLimiter ==
    \/ \E service \in Services : \E d \in {0, 1} : CheckLimit(service, d)
    \/ ClockTick

SpecLimiter == Init /\ [][NextLimiter]_vars


\* ------------------------------------------------------------- APIHandler
\* The statuses a response may carry.
Statuses == {200, 399, 400, 500}

RetriedAll(exc) == TRUE

\* backoff.on_exception(backoff.expo, (aiohttp.ClientError,
\* asyncio.TimeoutError), max_tries=3): the exceptions the decorator retries.
Retried(exc) == exc \in {"ClientError", "TimeoutError"}

\* The decorator's handling of an exception that leaves request(): sleep
\* and call again while tries are left, else raise it to the caller.
Raised(c, exc, cause) ==
    IF Retried(exc) /\ c.tries < MaxTries
    THEN [c EXCEPT !.pc = "backoff"]
    ELSE [c EXCEPT !.pc = "done", !.result = exc, !.cause = cause]

IssuedAlways(outcome) == TRUE

\* The network request is reached only when check_limit returned.
Issued(outcome) == outcome = "ok"

\* One invocation of request() by the decorator, up to the network request:
\* initialize(), check_limit(service), then session.request(...).
Attempt(c) ==
    LET res == CheckLimitResult(requests, c.service, now, now)
        t == [c EXCEPT !.tries = @ + 1]
    IN  /\ session' = TRUE
        /\ requests' = res.requests
        /\ limitResult' = [service |-> c.service, outcome |-> res.outcome]
        /\ call' = IF Issued(res.outcome)
                   THEN [t EXCEPT !.pc = "network", !.net = @ + 1,
                                  !.admitted = IF res.outcome = "ok" THEN @ + 1 ELSE @]
                   ELSE Raised(t, "APIError", "rate_limit")
        /\ UNCHANGED <<now, batchVars, monitorVars, appVars>>

\* A caller calls request(method, service, ...).
RequestCall(service) ==
    /\ call.pc \in {"idle", "done"}
    /\ callsMade < MaxCalls
    /\ callsMade' = callsMade + 1
    /\ Attempt([NoCall EXCEPT !.service = service])

\* The backoff sleep is over: the decorator calls request() again.
RetryAttempt ==
    /\ call.pc = "backoff"
    /\ callsMade' = callsMade
    /\ Attempt(call)

\* "if response.status >= 400: raise APIError(...)"
HttpError(status) == status >= 400

\* The response arrives: APIError for a status of 400 or more, which the
\* except clause does not catch, else the decoded body.
NetworkResponds(status) ==
    LET c == [call EXCEPT !.outcomes = Append(@, "response")]
    IN  /\ call.pc = "network"
        /\ call' = IF HttpError(status)
                   THEN Raised(c, "APIError", "http_error")
                   ELSE [c EXCEPT !.pc = "done", !.result = "json", !.cause = "none"]
        /\ UNCHANGED <<session, callsMade, limiterVars, batchVars, monitorVars, appVars>>

\* "except aiohttp.ClientError as e: raise APIError(...)": what leaves
\* request() when the network attempt raises exc.
Converted(exc) == IF exc = "ClientError" THEN "APIError" ELSE exc

\* The network attempt fails with a connection error (aiohttp.ClientError).
NetworkClientError ==
    /\ call.pc = "network"
    /\ call' = Raised([call EXCEPT !.outcomes = Append(@, "connection_error")],
                      Converted("ClientError"), "connection_error")
    /\ UNCHANGED <<session, callsMade, limiterVars, batchVars, monitorVars, appVars>>

\* The network attempt times out (asyncio.TimeoutError).
NetworkTimeout ==
    /\ call.pc = "network"
    /\ call' = Raised([call EXCEPT !.outcomes = Append(@, "timeout")],
                      Converted("TimeoutError"), "timeout")
    /\ UNCHANGED <<session, callsMade, limiterVars, batchVars, monitorVars, appVars>>

GatewayTick ==
    /\ callsMade > 0
    /\ ClockTick

NextGateway ==
    \/ \E service \in Services : RequestCall(service)
    \/ RetryAttempt
    \/ \E status \in Statuses : NetworkResponds(status)
    \/ NetworkClientError
    \/ NetworkTimeout
    \/ GatewayTick

SpecGateway == Init /\ [][NextGateway]_vars

\* ------------------------------------------------- PerformanceMonitor
\* metrics[name] is the list of the values of the points recorded under
\* name (the timestamp and the tags of a point are not read by get_summary).
\* scopes is the stack of the names of the open "with measure(name)" blocks,
\* exited is how the last one was left, summary is what the last
\* get_summary call returned.

Values == 1..3       \* values passed to record_metric
Elapsed == {0, 2}    \* end_time - start_time of a measure scope

RECURSIVE TotalPoints(_)
TotalPoints(names) ==
    IF names = {} THEN 0
    ELSE LET name == CHOOSE n \in names : TRUE
         IN  Len(metrics[name]) + TotalPoints(names \ {name})

\* "self.metrics[name].append(MetricPoint(value=value, ...))"
RecordMetric(points, name, value) ==
    [points EXCEPT ![name] = Append(@, value)]

\* monitor.record_metric(name, value)
RecordMetricCall(name, value) ==
    /\ TotalPoints(MetricNames) < MaxPoints
    /\ metrics' = RecordMetric(metrics, name, value)
    /\ UNCHANGED <<scopes, exited, summary, limiterVars, gatewayVars, batchVars, appVars>>

\* "with monitor.measure(name):" is entered: start_time is read and the
\* generator yields.
MeasureEnter(name) ==
    /\ Len(scopes) < MaxDepth
    /\ scopes' = Append(scopes, name)
    /\ UNCHANGED <<metrics, exited, summary, limiterVars, gatewayVars, batchVars, appVars>>

RecordedOnNormalExit(raised) == ~raised

\* The duration is recorded in a finally clause: on both ways out.
RecordedOnExit(raised) == TRUE

\* The block of the innermost measure scope ends, normally or by raising:
\* the finally clause records the duration, and an exception thrown into the
\* generator leaves it again after the finally clause.
MeasureExit(raised, duration) ==
    /\ Len(scopes) > 0
    /\ TotalPoints(MetricNames) < MaxPoints
    /\ LET name == scopes[Len(scopes)]
       IN  /\ metrics' = IF RecordedOnExit(raised)
                         THEN RecordMetric(metrics, Duration(name), duration)
                         ELSE metrics
           /\ exited' = [name |-> name, raised |-> raised]
    /\ scopes' = SubSeq(scopes, 1, Len(scopes) - 1)
    /\ UNCHANGED <<summary, limiterVars, gatewayVars, batchVars, appVars>>

\* min(values): the builtin scans the list from the left.
RECURSIVE MinValue(_)
MinValue(values) ==
    IF Len(values) = 1 THEN values[1]
    ELSE LET m == MinValue(SubSeq(values, 1, Len(values) - 1))
             v == values[Len(values)]
         IN  IF v < m THEN v ELSE m

\* max(values)
RECURSIVE MaxValue(_)
MaxValue(values) ==
    IF Len(values) = 1 THEN values[1]
    ELSE LET m == MaxValue(SubSeq(values, 1, Len(values) - 1))
             v == values[Len(values)]
         IN  IF v > m THEN v ELSE m

\* sum(values)
RECURSIVE Sum(_)
Sum(values) ==
    IF values = <<>> THEN 0
    ELSE Sum(SubSeq(values, 1, Len(values) - 1)) + values[Len(values)]

RECURSIVE Gcd(_, _)
Gcd(a, b) == IF b = 0 THEN a ELSE Gcd(b, a % b)

\* a / b, the quotient as a fraction in lowest terms (b > 0, a >= 0).
Quotient(a, b) ==
    LET g == Gcd(a, b)
    IN  [num |-> a \div g, den |-> b \div g]

GetMetricsLatest(points, name) ==
    IF points[name] = <<>> THEN <<>> ELSE <<points[name][Len(points[name])]>>

\* "metrics = self.metrics.get(name, [])"
GetMetrics(points, name) == points[name]

\* get_summary(name) on the metrics dictionary points
GetSummary(points, name) ==
    LET values == GetMetrics(points, name)
    IN  IF values = <<>>
        THEN EmptyDict
        ELSE [min   |-> MinValue(values),
              max   |-> MaxValue(values),
              avg   |-> Quotient(Sum(values), Len(values)),
              count |-> Len(values)]

\* monitor.get_summary(name)
GetSummaryCall(name) ==
    /\ summary' = [name |-> name, result |-> GetSummary(metrics, name)]
    /\ UNCHANGED <<metrics, scopes, exited, limiterVars, gatewayVars, batchVars, appVars>>

NextMonitor ==
    \/ \E name \in Names, value \in Values : RecordMetricCall(name, value)
    \/ \E name \in Names : MeasureEnter(name)
    \/ \E raised \in BOOLEAN, duration \in Elapsed : MeasureExit(raised, duration)
    \/ \E name \in MetricNames : GetSummaryCall(name)

SpecMonitor == Init /\ [][NextMonitor]_vars

\* ------------------------------------------------- PerformanceAnalyzer
\* The list of test_percentile_calculation.
TestValues == <<1, 2, 3, 4, 5, 6, 7, 8, 9, 10>>

\* Non-empty lists of values: both callers return before _percentile when
\* the list is empty.
PercentileValues ==
    UNION {[1..n -> Values] : n \in 1..MaxLen} \cup {TestValues}

Percentiles == {0, 50, 95, 99, 100}

\* v put in its place in the ascending list sorted
RECURSIVE Insert(_, _)
Insert(sorted, v) ==
    IF sorted = <<>> THEN <<v>>
    ELSE IF v >= sorted[Len(sorted)]
         THEN Append(sorted, v)
         ELSE Append(Insert(SubSeq(sorted, 1, Len(sorted) - 1), v), sorted[Len(sorted)])

\* sorted(values)
RECURSIVE Sorted(_)
Sorted(values) ==
    IF values = <<>> THEN <<>>
    ELSE Insert(Sorted(SubSeq(values, 1, Len(values) - 1)), values[Len(values)])

\* int(len(sorted_values) * percentile / 100); the operands are not negative
Index(values, p) == (Len(values) * p) \div 100

\* _percentile(values, percentile): sorted_values[index], which raises
\* IndexError when index is len(sorted_values).
Percentile(values, p) ==
    LET sorted_values == Sorted(values)
        index == Index(values, p)
    IN  IF index < Len(sorted_values)
        THEN [raised |-> "none", value |-> sorted_values[index + 1]]
        ELSE [raised |-> "IndexError", value |-> 0]

\* analyzer._percentile(values, p)
PercentileCall(values, p) ==
    /\ percentile' = [values |-> values, p |-> p, result |-> Percentile(values, p)]
    /\ UNCHANGED <<tasks, collected, validation, handlers, batchVars, limiterVars, gatewayVars, monitorVars>>

NextAnalyzer ==
    \E values \in PercentileValues, p \in Percentiles : PercentileCall(values, p)

SpecAnalyzer == Init /\ [][NextAnalyzer]_vars

\* ------------------------------------------------- CryptoMetricsCollector
Messages == {"rate limit", "timeout"}

\* collect_all_metrics(coin_id) is called: the four collector tasks are
\* created and the caller waits in asyncio.gather.
CollectAllMetrics ==
    /\ collected.state \in {"none", "returned", "raised"}
    /\ tasks' = [i \in 1..Len(TaskNames) |-> [NoTask EXCEPT !.state = "pending"]]
    /\ collected' = [state |-> "waiting", metrics |-> EmptyDict]
    /\ UNCHANGED <<percentile, validation, handlers, batchVars, limiterVars, gatewayVars, monitorVars>>

\* The collect(coin_id) of task i returns its metrics.
CollectorReturns(i) ==
    /\ tasks[i].state = "pending"
    /\ tasks' = [tasks EXCEPT ![i] = [state |-> "done", raised |-> FALSE,
                                     value |-> Categories[i]]]
    /\ UNCHANGED <<percentile, collected, validation, handlers, batchVars, limiterVars, gatewayVars, monitorVars>>

\* The collect(coin_id) of task i raises Exception(message).
CollectorRaises(i, message) ==
    /\ tasks[i].state = "pending"
    /\ tasks' = [tasks EXCEPT ![i] = [state |-> "done", raised |-> TRUE,
                                     value |-> message]]
    /\ UNCHANGED <<percentile, collected, validation, handlers, batchVars, limiterVars, gatewayVars, monitorVars>>

\* What gather(..., return_exceptions=True) puts in its list for a task: the
\* value returned, or the exception raised.
GatherResult(task) ==
    IF task.raised THEN [exception |-> task.value] ELSE [current_metrics |-> task.value]

IsExceptionNever(result) == FALSE

\* isinstance(result, Exception)
IsException(result) == "exception" \in DOMAIN result

\* str(result) of an exception
Str(result) == result.exception

\* The loop over zip(results, [...]): the first n pairs are in metrics.
RECURSIVE ProcessResults(_, _)
ProcessResults(results, n) ==
    IF n = 0 THEN EmptyDict
    ELSE LET metrics_ == ProcessResults(results, n - 1)
             result == results[n]
             category == Categories[n]
             entry == IF IsException(result) THEN [error |-> Str(result)] ELSE result
         IN  [key \in DOMAIN metrics_ \cup {category} |->
                 IF key = category THEN entry ELSE metrics_[key]]

\* Every task is done: gather returns the list of results in the order of
\* its arguments, the loop builds metrics and the call returns it.
GatherReturns ==
    /\ collected.state = "waiting"
    /\ \A i \in 1..Len(TaskNames) : tasks[i].state = "done"
    /\ LET results == [i \in 1..Len(TaskNames) |-> GatherResult(tasks[i])]
       IN  collected' = [state |-> "returned",
                         metrics |-> ProcessResults(results, Min(Len(results), Len(Categories)))]
    /\ UNCHANGED <<percentile, tasks, validation, handlers, batchVars, limiterVars, gatewayVars, monitorVars>>

NextCollector ==
    \/ CollectAllMetrics
    \/ \E i \in 1..Len(TaskNames) : CollectorReturns(i)
    \/ \E i \in 1..Len(TaskNames), message \in Messages : CollectorRaises(i, message)
    \/ GatherReturns

SpecCollector == Init /\ [][NextCollector]_vars

\* ------------------------------------------------- MarketMetrics.validate
\* MarketMetrics.REQUIRED_FIELDS, in the order of the list
RequiredFields == <<"market_cap", "current_price", "total_volume", "high_24h", "low_24h">>

\* Values a field can hold: a number, a string that float() parses once the
\* currency signs are removed, a string it does not parse, and None.
PyValues ==
    { [type |-> "int", text |-> "1000000000"],
      [type |-> "str", text |-> "$1,000"],
      [type |-> "str", text |-> "invalid"],
      [type |-> "NoneType", text |-> "None"] }

\* The dictionaries passed to validate: any of the required fields, each
\* with any of the values.
DataSets ==
    UNION { [present -> PyValues] :
              present \in SUBSET {RequiredFields[i] : i \in 1..Len(RequiredFields)} }

\* float(text) of a string returns (it raises ValueError otherwise)
FloatParses(text) == text \in {"1000000000", "1000"}

\* value.replace('$', '').replace(',', '').strip()
Stripped(text) == IF text = "$1,000" THEN "1000" ELSE text

\* "except ValueError: logger.warning(...); return 0.0" inside
\* clean_numeric_data
CaughtInside(exc) == exc = "ValueError"

\* clean_numeric_data(value): the exception that leaves it, or "none"
CleanNumericData(value) ==
    IF value.type = "str"
    THEN IF FloatParses(Stripped(value.text))
         THEN "none"
         ELSE IF CaughtInside("ValueError") THEN "none" ELSE "ValueError"
    ELSE IF value.type \in {"int", "float"} THEN "none" ELSE "TypeError"

\* validate_required_fields(data, required_fields)
ValidateRequiredFields(data) ==
    LET missing_fields == {i \in 1..Len(RequiredFields) : RequiredFields[i] \notin DOMAIN data}
    IN  IF missing_fields # {} THEN "ValidationError" ELSE "none"

\* The loop of validate over the first n required fields.
RECURSIVE ValidateNumeric(_, _)
ValidateNumeric(data, n) ==
    IF n = 0 THEN "none"
    ELSE LET before == ValidateNumeric(data, n - 1)
         IN  IF before # "none" THEN before
             ELSE IF CleanNumericData(data[RequiredFields[n]]) \in {"ValueError", "TypeError"}
                  THEN "ValidationError"
                  ELSE "none"

\* validate(data): the exception raised, or "none"
Validate(data) ==
    IF ValidateRequiredFields(data) # "none"
    THEN ValidateRequiredFields(data)
    ELSE ValidateNumeric(data, Len(RequiredFields))

\* metrics.validate(data); validate keeps no state, so one call is followed
\* per behaviour.
ValidateCall(data) ==
    /\ ~validation.called
    /\ validation' = [called |-> TRUE, data |-> data, raised |-> Validate(data)]
    /\ UNCHANGED <<percentile, tasks, collected, handlers, batchVars, limiterVars, gatewayVars, monitorVars>>

NextValidate == \E data \in DataSets : ValidateCall(data)

SpecValidate == Init /\ [][NextValidate]_vars

\* ------------------------------------------------- one limiter per collector
\* A collector calls self.api_handler.get(service=self.service, ...): the
\* check_limit of the RateLimiter of its own APIHandler runs.
CollectorCheckLimit(collector) ==
    LET res == CheckLimitResult(handlers[collector], ServiceOf[collector], now, now)
    IN  /\ handlers' = [handlers EXCEPT ![collector] = res.requests]
        /\ limitResult' = [service |-> ServiceOf[collector], outcome |-> res.outcome]
        /\ UNCHANGED <<now, requests, percentile, tasks, collected, validation,
                       batchVars, gatewayVars, monitorVars>>

NextHandlers ==
    \/ \E collector \in CollectorNames : CollectorCheckLimit(collector)
    \/ ClockTick

SpecHandlers == Init /\ [][NextHandlers]_vars


\* ================================================================ claims
Requests == 1..Len(future)

NoLoopActive == \A l \in LoopIds : ~Active(l)

\* C1: a completion future is resolved at most once: a future that
\* _distribute_results or _handle_batch_error has resolved never changes
\* again, and no later set_result or set_exception is attempted on it (the
\* attempt would raise InvalidStateError instead of being a no-op).
C1_ResolvedOnce ==
    /\ [](doubleSet = {})
    /\ [][\A r \in Requests : future[r].st = "FINISHED" => future'[r] = future[r]]_vars

\* C1 witness: the batch path and the fallback path have both resolved
\* futures while a caller had abandoned its wait.
C1_Witness ==
    /\ \E r \in Requests : future[r].st = "FINISHED" /\ future[r].kind = "batch"
    /\ \E r \in Requests : future[r].st = "FINISHED" /\ future[r].kind = "single"
    /\ \E r \in Requests : future[r].st = "CANCELLED"

\* C2: at any moment at most one _process_batches task exists (created and
\* not yet finished) for the processor.
C2_OneLoop == Cardinality({l \in LoopIds : Active(l)}) <= 1

\* C3: no request whose submit is waiting on its future stays pending for
\* ever: once no _process_batches task is left to run, every such future is
\* resolved or cancelled.
C3_NoneLeftPending ==
    NoLoopActive => \A r \in Requests : accepted[r] => future[r].st # "PENDING"

\* C4: every combined payload passed downstream holds at least 1 and at most
\* batch_size requests and its batch_size field is the number of its
\* requests; an empty collection is never sent.
C4_BatchBounds ==
    /\ \A i \in 1..Len(sent) : 1 <= sent[i] /\ sent[i] <= batch_size
    /\ \A l \in LoopIds : loops[l].pc = "batch_call" =>
          LET payload == CombineContexts(loops[l].batch)
          IN  /\ 1 <= Len(payload.requests)
              /\ Len(payload.requests) <= batch_size
              /\ payload.batch_size = Len(payload.requests)

\* C4 witness: a full batch and a batch cut short by the timeout have both
\* been sent.
C4_Witness ==
    /\ \E i \in 1..Len(sent) : sent[i] = batch_size
    /\ \E i \in 1..Len(sent) : sent[i] < batch_size

\* C5: with batch_size 3 and a burst of 5 submits, the downstream client
\* receives exactly two combined batches, of 3 requests and then of 2.
C5_ThreeThenTwo ==
    /\ Len(sent) <= 2
    /\ Len(sent) >= 1 => sent[1] = 3
    /\ Len(sent) >= 2 => sent[2] = 2
    /\ (Len(prio) = 5 /\ NoLoopActive) => sent = <<3, 2>>

\* C6: one run of _collect_batch never lasts longer than the batch timeout,
\* counted from the start of the collection.
C6_CollectWithinTimeout ==
    \A l \in LoopIds : loops[l].pc = "collect" => loops[l].elapsed <= BatchTimeout

\* C7: when the batch call returns exactly one result per request, the i-th
\* request of the batch is resolved with the i-th result.
C7_Positional ==
    [][\A l \in LoopIds : \A resp \in Responses(CombineContexts(loops[l].batch)) :
         (BatchReturns(l, resp) /\ resp.has
            /\ Len(resp.results) = Len(loops[l].batch))
         => \A i \in 1..Len(loops[l].batch) :
               LET r == loops[l].batch[i]
               IN  /\ future'[r].st = "FINISHED"
                   /\ future'[r].kind = resp.results[i].kind
                   /\ future'[r].of = resp.results[i].of]_vars

\* C7 witness: a request holds the entry at its own position of a response
\* whose entries came back in another order.
C7_Witness ==
    \E r \in Requests :
        future[r].st = "FINISHED" /\ future[r].kind = "batch" /\ future[r].of # r

\* C8: when the batch response has no 'results' or a results list of the
\* wrong length, no returned result reaches any future, the fallback starts
\* on the first request, and it is left only after the last request of the
\* batch has had its individual calls.
C8_MismatchFallsBack ==
    /\ [][\A l \in LoopIds : \A resp \in Responses(CombineContexts(loops[l].batch)) :
            (BatchReturns(l, resp)
               /\ ~(resp.has /\ Len(resp.results) = Len(loops[l].batch)))
            => /\ future' = future
               /\ loops'[l].pc = "fallback_call"
               /\ loops'[l].batch = loops[l].batch
               /\ loops'[l].idx = 1]_vars
    /\ [][\A l \in LoopIds :
            (loops[l].pc = "fallback_call" /\ loops'[l].pc # "fallback_call")
            => loops[l].idx = Len(loops[l].batch)]_vars
    /\ [](\A l \in LoopIds : loops[l].pc = "fallback_call" =>
            \A j \in 1..loops[l].idx :
                /\ indivCalls[loops[l].batch[j]] >= 1
                /\ j < loops[l].idx =>
                       future[loops[l].batch[j]].kind \in {"single", "error"})

\* C8 witness: the fallback has reached the last request of a batch of
\* several requests.
C8_Witness ==
    \E l \in LoopIds :
        /\ loops[l].pc = "fallback_call"
        /\ Len(loops[l].batch) >= 2
        /\ loops[l].idx = Len(loops[l].batch)

\* C9: in the fallback a request is resolved by its own individual calls
\* alone: with its own result when a call returns, with its own error when
\* its retries are spent; that step changes no other future and the for loop
\* goes on to the next request of the batch.
C9_FallbackIsolated ==
    /\ [](\A r \in Requests :
            future[r].kind \in {"single", "error"} => future[r].of = r)
    /\ [][\A l \in LoopIds :
            (loops[l].pc = "fallback_call"
               /\ (IndivReturns(l) \/ (IndivRaises(l) /\ ~(loops[l].attempt < MaxRetries))))
            => LET r == loops[l].batch[loops[l].idx]
               IN  /\ future'[r].st = "FINISHED"
                   /\ future'[r].kind = IF IndivReturns(l) THEN "single" ELSE "error"
                   /\ \A q \in Requests : q # r => future'[q] = future[q]
                   /\ loops[l].idx < Len(loops[l].batch)
                        => /\ loops'[l].pc = "fallback_call"
                           /\ loops'[l].batch = loops[l].batch
                           /\ loops'[l].idx = loops[l].idx + 1]_vars

\* C9 witness: the fallback is calling downstream for a request whose
\* predecessor in the batch has failed.
C9_Witness ==
    \E l \in LoopIds :
        /\ loops[l].pc = "fallback_call"
        /\ \E j \in 1..(loops[l].idx - 1) : future[loops[l].batch[j]].kind = "error"

\* C10 as stated: the individual downstream calls made for one request
\* never exceed max_retries.
C10_AtMostMaxRetries == \A r \in Requests : indivCalls[r] <= MaxRetries

\* C10 as amended: the individual downstream calls made for one request
\* never exceed max_retries + 1; a request is failed once max_retries + 1
\* calls have been made, and a request is not called again once its future
\* is done.
C10_AtMostMaxRetriesPlusOne ==
    /\ [](\A r \in Requests :
            /\ indivCalls[r] <= MaxRetries + 1
            /\ future[r].kind = "error" => indivCalls[r] = MaxRetries + 1)
    /\ [][\A r \in Requests :
            future[r].st # "PENDING" => indivCalls'[r] = indivCalls[r]]_vars

\* C10 witness: a request has been failed after max_retries + 1 calls.
C10_Witness ==
    \E r \in Requests : future[r].kind = "error" /\ indivCalls[r] = MaxRetries + 1

\* C11: the collector always dequeues a request of the smallest priority
\* value in the queue: when queue.get() hands a request to a batch, no
\* request still queued has a strictly lower priority value.
C11_LowestPriorityFirst ==
    [][\A l \in LoopIds :
         (CollectGet(l) /\ Len(loops'[l].batch) > Len(loops[l].batch))
         => LET r == loops'[l].batch[Len(loops'[l].batch)]
            IN  \A i \in 1..Len(queue') : prio[queue'[i]] >= prio[r]]_vars

\* C12: requests of equal priority are all accepted by submit and leave the
\* queue in the order in which they entered it: no submit fails in
\* queue.put, and when queue.get() hands a request to a batch no request of
\* the same priority that was enqueued earlier is still queued.
C12_EqualPriorityFifo ==
    /\ [](\A r \in Requests : \A q \in Requests :
            (q # r /\ prio[q] = prio[r]) => (accepted[q] /\ accepted[r]))
    /\ [][\A l \in LoopIds :
            (CollectGet(l) /\ Len(loops'[l].batch) > Len(loops[l].batch))
            => LET r == loops'[l].batch[Len(loops'[l].batch)]
               IN  \A i \in 1..Len(queue') :
                      prio[queue'[i]] = prio[r] => queue'[i] > r]_vars

\* The recorded timestamps of a service that are newer than t - window.
InWindow(stamps, t) == SelectSeq(stamps, LAMBDA ts : ts > t - RateLimitWindow)

\* C13: for every service, the number of recorded timestamps newer than
\* now - window never exceeds the service's configured ceiling.
C13_WithinCeiling ==
    \A service \in Services :
        Len(InWindow(requests[service], now)) <= MaxRequests(service)

\* C13 witness: a service is at its ceiling with timestamps recorded after
\* the first window has passed.
C13_Witness ==
    \E service \in Services :
        /\ MaxRequests(service) >= 2
        /\ Len(InWindow(requests[service], now)) = MaxRequests(service)
        /\ requests[service][1] >= RateLimitWindow

\* C14: check_limit succeeds exactly when fewer than N admitted timestamps
\* of the service are newer than now - W.
C14_AdmitsBelowCeiling ==
    [][\A service \in Services : \A d \in {0, 1} :
         CheckLimit(service, d)
         => (limitResult'.outcome = "ok"
               <=> Len(InWindow(requests[service], now)) < MaxRequests(service))]_vars

\* C14 witness: a service whose first N calls were admitted and whose next
\* call was rejected is admitted again exactly one window after its first
\* admission.
C14_Witness ==
    \E service \in Services :
        /\ MaxRequests(service) >= 2
        /\ limitResult = [service |-> service, outcome |-> "ok"]
        /\ now = RateLimitWindow
        /\ requests[service] = <<1, RateLimitWindow>>

\* C15: a rejected check_limit records no timestamp: the timestamps inside
\* the window are the same after the call as before it, for every service.
C15_RejectionRecordsNothing ==
    [][\A service \in Services :
         (CheckLimit(service, 0) /\ limitResult'.outcome = "APIError")
         => \A other \in Services :
               InWindow(requests'[other], now') = InWindow(requests[other], now)]_vars

\* C15 witness: a call was rejected because the budget of its service was
\* spent, after an older timestamp had left the window.
C15_Witness ==
    \E service \in Services :
        /\ limitResult = [service |-> service, outcome |-> "APIError"]
        /\ MaxRequests(service) > 0
        /\ now > RateLimitWindow

\* C16: the rate limiter is consulted before every network attempt, and a
\* rejection ends the call at once: no network request is issued for it
\* and the decorator does not call request() again.
C16_LimiterBeforeNetwork ==
    /\ [](call.net = call.admitted)
    /\ [](call.cause = "rate_limit" => call.pc = "done" /\ call.result = "APIError")
    /\ [][((RetryAttempt \/ \E service \in Services : RequestCall(service))
             /\ limitResult'.outcome = "APIError")
          => /\ call'.pc = "done"
             /\ call'.cause = "rate_limit"
             /\ call'.net = IF RetryAttempt THEN call.net ELSE 0]_vars

\* C16 witness: a call was rejected on its first attempt by a service whose
\* budget an earlier call had spent.
C16_Witness ==
    /\ call.pc = "done"
    /\ call.cause = "rate_limit"
    /\ call.tries = 1
    /\ call.net = 0
    /\ MaxRequests(call.service) > 0

\* C17: a network attempt failing with a connection error or a timeout is
\* retried, at most 3 attempts are made in total, and the failure reaches
\* the caller only after the attempts are exhausted.
C17_TransientRetried ==
    /\ call.net <= MaxTries
    /\ (call.pc = "done" /\ call.cause \in {"connection_error", "timeout"})
          => call.tries = MaxTries

C19_OneDurationPointPerExit ==
    /\ [][\A raised \in BOOLEAN, duration \in Elapsed :
            MeasureExit(raised, duration)
            => LET name == scopes[Len(scopes)]
                   before == metrics[Duration(name)]
               IN  /\ metrics'[Duration(name)] = Append(before, duration)
                   /\ \A other \in MetricNames \ {Duration(name)} :
                         metrics'[other] = metrics[other]
                   /\ exited' = [name |-> name, raised |-> raised]]_vars
    /\ [][\A name \in Names : MeasureEnter(name) => metrics' = metrics]_vars

\* C19 witness: a scope was left by an exception, and its duration sequence
\* holds the one point of that exit.
C19_Witness ==
    /\ exited.raised
    /\ scopes = <<>>
    /\ Len(metrics[Duration(exited.name)]) = 1
    /\ TotalPoints(MetricNames) = 1

\* The points of values counted by value: the sum of a list whatever its order.
RECURSIVE SumByValue(_, _)
SumByValue(values, distinct) ==
    IF distinct = {} THEN 0
    ELSE LET v == CHOOSE x \in distinct : TRUE
         IN  v * Cardinality({i \in 1..Len(values) : values[i] = v})
               + SumByValue(values, distinct \ {v})

ValueSet(values) == {values[i] : i \in 1..Len(values)}

\* C20: get_summary(name) returns the least and the greatest value, the
\* mean and the number of all the points recorded under name, whatever the
\* order they were recorded in and whatever was recorded under other names;
\* it returns the empty dictionary when nothing was recorded under name.
C20_SummaryOverAllPoints ==
    [][\A name \in MetricNames :
         GetSummaryCall(name)
         => LET values == metrics[name]
                result == summary'.result
            IN  /\ summary'.name = name
                /\ IF values = <<>>
                   THEN result = EmptyDict
                   ELSE /\ DOMAIN result = {"min", "max", "avg", "count"}
                        /\ result.count = Len(values)
                        /\ result.min \in ValueSet(values)
                        /\ \A v \in ValueSet(values) : result.min <= v
                        /\ result.max \in ValueSet(values)
                        /\ \A v \in ValueSet(values) : result.max >= v
                        /\ result.avg.den > 0
                        /\ result.avg.num * Len(values)
                             = result.avg.den * SumByValue(values, ValueSet(values))]_vars

\* C20 witness: the values 3, 1, 2 were recorded in that order under one
\* name, another name has points too, and the summary of the first name is
\* min 1, max 3, avg 2, count 3.
C20_Witness ==
    /\ summary.name = "a"
    /\ metrics["a"] = <<3, 1, 2>>
    /\ metrics["b"] # <<>>
    /\ summary.result = [min |-> 1, max |-> 3, avg |-> [num |-> 2, den |-> 1], count |-> 3]

\* C21: _percentile returns the nearest-rank percentile: the smallest value
\* v of the list such that at least p percent of the values are <= v (for
\* 1..10: 10 for p = 95, 5 for p = 50).
C21_NearestRankPercentile ==
    percentile.values # <<>>
    => LET values == percentile.values
           atMost(v) == Cardinality({i \in 1..Len(values) : values[i] <= v})
           enough(v) == atMost(v) * 100 >= percentile.p * Len(values)
       IN  /\ percentile.result.raised = "none"
           /\ percentile.result.value \in ValueSet(values)
           /\ enough(percentile.result.value)
           /\ \A v \in ValueSet(values) : enough(v) => percentile.result.value <= v

\* C25: for a non-empty list and p in 0..100, _percentile returns an element
\* of the list: the one at index floor(count * p / 100) of the values in
\* ascending order, i.e. the value v with fewer than index + 1 values below
\* it and at least index + 1 values at most v.
C25_ElementAtSortedIndex ==
    percentile.values # <<>>
    => LET values == percentile.values
           index == (Len(values) * percentile.p) \div 100
           v == percentile.result.value
       IN  /\ percentile.result.raised = "none"
           /\ v \in ValueSet(values)
           /\ Cardinality({i \in 1..Len(values) : values[i] < v}) <= index
           /\ index < Cardinality({i \in 1..Len(values) : values[i] <= v})

\* C22: collect_all_metrics returns a mapping with exactly the keys market,
\* volume, social and development whatever collectors fail: a failed
\* collector contributes {'error': message} under its key, the others
\* contribute their results under theirs, and the call never raises.
C22_FourKeysAlways ==
    /\ collected.state # "raised"
    /\ collected.state = "returned"
       => /\ DOMAIN collected.metrics = {"market", "volume", "social", "development"}
          /\ \A i \in 1..Len(TaskNames) :
                collected.metrics[Categories[i]] =
                    IF tasks[i].raised
                    THEN [error |-> tasks[i].value]
                    ELSE [current_metrics |-> tasks[i].value]

\* C22 witness: a call returned although two collectors failed, with
\* different messages, and two succeeded.
C22_Witness ==
    /\ collected.state = "returned"
    /\ tasks[1].raised /\ tasks[3].raised /\ ~tasks[2].raised /\ ~tasks[4].raised
    /\ tasks[1].value # tasks[3].value
    /\ collected.metrics["market"] = [error |-> tasks[1].value]
    /\ collected.metrics["volume"] = [current_metrics |-> "volume"]

\* C23: validate raises ValidationError when a required field is missing or
\* holds a value that is not numeric (such as 'invalid'), and returns
\* normally when every required field is present and numeric.
C23_ValidationRejectsNonNumeric ==
    validation.called
    => LET data == validation.data
           numeric(value) == \/ value.type \in {"int", "float"}
                             \/ value.type = "str" /\ value.text # "invalid"
           valid == \A i \in 1..Len(RequiredFields) :
                       /\ RequiredFields[i] \in DOMAIN data
                       /\ numeric(data[RequiredFields[i]])
       IN  validation.raised = IF valid THEN "none" ELSE "ValidationError"

\* C24: one call of request() is admitted by the rate limiter exactly once:
\* whatever the number of its network attempts (1 to 3), it has recorded
\* exactly one timestamp for its service.
C24_AdmittedOncePerCall ==
    call.net >= 1 => call.admitted = 1

\* The admissions of a service still inside the trailing window at time t,
\* summed over the collectors.
RECURSIVE AdmittedInWindow(_, _, _)
AdmittedInWindow(collectors, service, t) ==
    IF collectors = {} THEN 0
    ELSE LET collector == CHOOSE x \in collectors : TRUE
         IN  Len(InWindow(handlers[collector][service], t))
               + AdmittedInWindow(collectors \ {collector}, service, t)

\* C30: within one CryptoMetricsCollector the calls admitted for a service,
\* summed over all its collectors, never exceed the service's ceiling in any
\* trailing window.
C30_CeilingPerService ==
    \A service \in Services :
        AdmittedInWindow(CollectorNames, service, now) <= MaxRequests(service)

\* C26: a batch loop exits only after a collection attempt that left it
\* facing an empty queue, never straight from its start; the processing
\* flag is false after every exit of a loop, normal or by exception; and a
\* submit issued once the loops have exited is accepted and starts a new
\* loop.
C26_ExitAndRearm ==
    /\ [][\A l \in LoopIds :
            (Active(l) /\ loops'[l].pc = "idle")
            => /\ loops[l].pc # "created"
               /\ processing' = FALSE]_vars
    /\ [][\A p \in Priorities :
            (Submit(p) /\ NoLoopActive /\ Len(prio) > 0)
            => /\ accepted'[Len(accepted')]
               /\ \E l \in LoopIds : loops'[l].pc = "created"]_vars

\* The loops whose batch, being collected or in flight, holds request r.
Holders(r) ==
    {l \in LoopIds : \E i \in 1..Len(loops[l].batch) : loops[l].batch[i] = r}

InQueue(r) == \E i \in 1..Len(queue) : queue[i] = r

\* C27: a request is pulled into at most one batch and appears at most once
\* in it: it is never in the batches of two loops, twice in one batch, or
\* in a batch and in the queue; a request enters a batch only from the queue
\* and, once out of the queue, never returns to it.
C27_InOneBatchOnce ==
    /\ [](\A r \in Requests :
            /\ Cardinality(Holders(r)) <= 1
            /\ \A l \in LoopIds :
                  Cardinality({i \in 1..Len(loops[l].batch) : loops[l].batch[i] = r}) <= 1
            /\ Cardinality({i \in 1..Len(queue) : queue[i] = r}) <= 1
            /\ Holders(r) # {} => ~InQueue(r))
    /\ [][\A r \in Requests : ~InQueue(r) => ~InQueue(r)']_vars
    /\ [][\A r \in Requests : \A l \in LoopIds :
            (l \notin Holders(r) /\ l \in Holders(r)')
            => InQueue(r) /\ Holders(r) = {}]_vars

\* C27 witness: two loops hold a batch each at the same time, one of them
\* with two requests.
C27_Witness ==
    \E l, k \in LoopIds :
        /\ l # k
        /\ Len(loops[l].batch) = 2
        /\ Len(loops[k].batch) = 1

\* C28: whenever the queue holds a request, a batch loop is running or has
\* been created and not yet started: no request is left in the queue with no
\* loop to collect it, also after a loop has exited or ended by an exception.
C28_QueuedImpliesLoop ==
    queue # <<>> => \E l \in LoopIds : Active(l)

\* C29: when the future of a request of a batch has been cancelled by its
\* caller (while queued, during the batch call or during an individual
\* call), the loop still finishes the batch: every other request of the
\* batch is resolved, and the loop goes on while the queue holds requests.
C29_CancelledSiblingsResolved ==
    [][\A l \in LoopIds :
         LET batch == loops[l].batch
         IN  (/\ batch # <<>>
              /\ loops'[l].batch = <<>>
              /\ \E i \in 1..Len(batch) : future'[batch[i]].st = "CANCELLED")
             => /\ \A i \in 1..Len(batch) : future'[batch[i]].st # "PENDING"
                /\ queue' # <<>> => loops'[l].pc # "idle"]_vars

====
